---- MODULE Spec2Model ----
(***************************************************************************)
(* Model of the MolecularSimilarity scripts:                               *)
(*   - model_factory.py      : the name -> constructor registry            *)
(*   - add_activity.py       : joining scores with activities             *)
(*   - compute_descriptors.py: writing descriptor CSV files                *)
(* Each script has its own specification (Spec, SpecAct, SpecDesc); the    *)
(* variables of the other scripts stay at their initial value.             *)
(***************************************************************************)
EXTENDS FiniteSets, Integers, Sequences, TLC

VARIABLES
    _required_models,   \* model_factory._required_models: name -> constructor
    objects,            \* every instance a constructor call has returned
    invocations,        \* constructor -> number of times it has been called
    discoveryRuns,      \* number of times _discover_models has run
    history,            \* the calls made so far, with their outcome
    act,                \* state of one run of add_activity.py
    desc                \* state of one run of compute_descriptors.py

vars == <<_required_models, objects, invocations, discoveryRuns, history, act, desc>>

regVars == <<_required_models, objects, invocations, discoveryRuns, history>>

(***************************************************************************)
(* Bounds                                                                  *)
(***************************************************************************)
MaxCalls == 4
MaxScoreLines == 2
MaxActivityLines == 2
MaxActivities == 2
MaxFiles == 2
MaxMolecules == 2
MaxFragments == 2

(***************************************************************************)
(* model_factory.py                                                        *)
(***************************************************************************)

\* The modules imported by _discover_models, in import order.
DiscoveryModules ==
    << "active_index_model", "descriptors_model", "rdkit_ecfp_model",
       "rdkit_fcfp_model", "rdkit_tt_model", "rdkit_ap_model",
       "control_model", "active_inactive_index_model",
       "linear_regression_model", "decision_tree_model", "nbit_ecfp_model",
       "nbit_fcfp_model", "nbit_ap_model", "nbit_ecfp_model2",
       "nbit_fcfp_model2", "nbit_tt_model", "equivalent_class_model",
       "baseline_model", "ecfp_pair_model" >>

\* The name under which each model module registers itself when imported.
\* The model modules are not part of the sources at hand; the names are the
\* registration table of the specification (section 6).
ModelName(module) ==
    CASE module = "active_index_model"          -> "active_index"
      [] module = "descriptors_model"           -> "descriptors"
      [] module = "rdkit_ecfp_model"            -> "rdkit_ecfp"
      [] module = "rdkit_fcfp_model"            -> "rdkt_fcfp"
      [] module = "rdkit_tt_model"              -> "rdkit_tt"
      [] module = "rdkit_ap_model"              -> "rdkit_ap"
      [] module = "control_model"               -> "control"
      [] module = "active_inactive_index_model" -> "active_inactive_index"
      [] module = "linear_regression_model"     -> "linear_regression"
      [] module = "decision_tree_model"         -> "decision_tree"
      [] module = "nbit_ecfp_model"             -> "nbit_ecfp"
      [] module = "nbit_fcfp_model"             -> "nbit_fcfp"
      [] module = "nbit_ap_model"               -> "nbit_ap"
      [] module = "nbit_ecfp_model2"            -> "nbit_ecfp2"
      [] module = "nbit_fcfp_model2"            -> "nbit_fcfp2"
      [] module = "nbit_tt_model"               -> "nbit_tt"
      [] module = "equivalent_class_model"      -> "equivalent_class"
      [] module = "baseline_model"              -> "baseline"
      [] module = "ecfp_pair_model"             -> "ecfp_pair"

\* The constructor a model module registers: its own model class.
ModuleConstructor(module) == "class:" \o module

KnownNames == { ModelName(DiscoveryModules[i]) : i \in DOMAIN DiscoveryModules }

\* Inputs of the calls: names and constructors a caller passes.
RegisterNames == { "baseline", "custom" }
CreateNames == { "baseline", "control", "custom", "not_a_model" }
CallerConstructors == { "c1", "c2" }

AllConstructors ==
    CallerConstructors \cup
    { ModuleConstructor(DiscoveryModules[i]) : i \in DOMAIN DiscoveryModules }

\* _required_models = {}
EmptyRegistry == << >>

\* A mutation of register_model: an existing entry is kept (setdefault).
register_model_keep(reg, name, constructor) ==
    [ m \in DOMAIN reg \cup {name} |->
        IF m \in DOMAIN reg THEN reg[m] ELSE constructor ]

\* A mutation of register_model: the mapping is replaced by the one entry.
register_model_replace(reg, name, constructor) ==
    [ m \in {name} |-> constructor ]

\* register_model: _required_models[name] = constructor
register_model(reg, name, constructor) ==
    [ m \in DOMAIN reg \cup {name} |->
        IF m = name THEN constructor ELSE reg[m] ]

\* _discover_models: importing a model module makes it call register_model
\* with its name and class; the modules are imported in order.
RECURSIVE ImportModules(_, _)
ImportModules(reg, i) ==
    IF i > Len(DiscoveryModules) THEN reg
    ELSE ImportModules(
            register_model(reg, ModelName(DiscoveryModules[i]),
                           ModuleConstructor(DiscoveryModules[i])),
            i + 1)

_discover_models(reg) == ImportModules(reg, 1)

\* Mutations of the guard of create_model.
NeedsDiscoveryAlways(reg) == TRUE

NeedsDiscoveryNever(reg) == FALSE

\* create_model: if _required_models == {}
NeedsDiscovery(reg) == reg = EmptyRegistry

\* The registry at the time of the lookup of create_model.
RegistryAtLookup(reg) ==
    IF NeedsDiscovery(reg) THEN _discover_models(reg) ELSE reg

\* A mutation of the lookup: an unknown name falls back to a default model.
LookupDefault(reg, name) ==
    IF name \in DOMAIN reg THEN [found |-> TRUE, constructor |-> reg[name]]
    ELSE IF "baseline" \in DOMAIN reg
         THEN [found |-> TRUE, constructor |-> reg["baseline"]]
         ELSE [found |-> FALSE, constructor |-> "none"]

\* create_model: _required_models[name], a KeyError when name is missing.
Lookup(reg, name) ==
    IF name \in DOMAIN reg THEN [found |-> TRUE, constructor |-> reg[name]]
    ELSE [found |-> FALSE, constructor |-> "none"]

\* A mutation of the call: the instance made earlier is returned again.
ConstructCached(constructor, objs) ==
    IF \E o \in objs : o.constructor = constructor
    THEN CHOOSE o \in objs : o.constructor = constructor
    ELSE [constructor |-> constructor, id |-> Cardinality(objs) + 1]

\* create_model: constructor(), a call of a class makes a new object.
Construct(constructor, objs) ==
    [constructor |-> constructor, id |-> Cardinality(objs) + 1]

KeyError == [constructor |-> "KeyError", id |-> 0]
NoResult == [constructor |-> "None", id |-> 0]

InitRegistry ==
    /\ _required_models = EmptyRegistry
    /\ objects = {}
    /\ invocations = [c \in AllConstructors |-> 0]
    /\ discoveryRuns = 0
    /\ history = << >>

\* register_model(name, constructor)
RegisterModel ==
    /\ Len(history) < MaxCalls
    /\ \E name \in RegisterNames, constructor \in CallerConstructors :
        /\ _required_models' = register_model(_required_models, name, constructor)
        /\ history' = Append(history,
                [op |-> "register", name |-> name, constructor |-> constructor,
                 result |-> NoResult, inv |-> invocations,
                 runs |-> discoveryRuns,
                 names |-> DOMAIN register_model(_required_models, name, constructor)])
    /\ UNCHANGED <<objects, invocations, discoveryRuns>>

\* create_model(name)
CreateModel ==
    /\ Len(history) < MaxCalls
    /\ \E name \in CreateNames :
        LET reg == RegistryAtLookup(_required_models)
            entry == Lookup(reg, name)
            instance == Construct(entry.constructor, objects)
            inv == IF entry.found
                   THEN [invocations EXCEPT ![entry.constructor] = @ + 1]
                   ELSE invocations
            runs == IF NeedsDiscovery(_required_models)
                    THEN discoveryRuns + 1 ELSE discoveryRuns
        IN  /\ _required_models' = reg
            /\ discoveryRuns' = runs
            /\ invocations' = inv
            /\ objects' = IF entry.found THEN objects \cup {instance} ELSE objects
            /\ history' = Append(history,
                    [op |-> "create", name |-> name, constructor |-> "none",
                     result |-> IF entry.found THEN instance ELSE KeyError,
                     inv |-> inv, runs |-> runs, names |-> DOMAIN reg])

(***************************************************************************)
(* Properties of model_factory.py                                          *)
(***************************************************************************)
IsCreate(j) == history[j].op = "create"

IsRegister(j) == history[j].op = "register"

\* The invocation counts before call j.
InvBefore(j) == IF j = 1 THEN [c \in AllConstructors |-> 0] ELSE history[j - 1].inv

\* register_model(n, _) was called before call j.
RegisteredBefore(n, j) ==
    \E i \in 1..(j - 1) : IsRegister(i) /\ history[i].name = n

\* register_model(n, _) was called between calls k and j (exclusive).
RegisteredBetween(n, k, j) ==
    \E i \in (k + 1)..(j - 1) : IsRegister(i) /\ history[i].name = n

\* By the end of call j, n was registered neither by a caller nor by discovery.
NeverRegistered(n, j) ==
    /\ ~RegisteredBefore(n, j)
    /\ n \notin KnownNames \/ history[j].runs = 0

\* C1: once the first create_model call has run, whatever register_model
\* calls preceded it, every known model name is present in the registry.
C1_DiscoveredAfterFirstCreate ==
    (\E j \in DOMAIN history : IsCreate(j)) => KnownNames \subseteq DOMAIN _required_models

\* C2: after the first create_model call, a later create_model call never
\* runs discovery again and leaves the set of registered names as it was;
\* discovery runs at most once.
C2_DiscoveryAtMostOnce ==
    [][ ( /\ \E j \in DOMAIN history : IsCreate(j)
          /\ Len(history') = Len(history) + 1
          /\ history'[Len(history')].op = "create" )
        => /\ DOMAIN _required_models' = DOMAIN _required_models
           /\ discoveryRuns' = discoveryRuns
           /\ discoveryRuns' <= 1 ]_vars

\* C2 witness: the first call was a failing create_model that ran discovery,
\* and two more create_model calls followed.
C2_Witness ==
    /\ Len(history) >= 3
    /\ \A j \in 1..3 : IsCreate(j)
    /\ history[1].result = KeyError
    /\ history[1].runs = 1
    /\ history[3].result # KeyError

\* C3: create_model(n) for a name n never registered, by a caller or by
\* discovery, fails with a KeyError and calls no constructor, both when the
\* call triggers discovery and afterwards.
C3_UnregisteredNameFails ==
    \A j \in DOMAIN history :
        (IsCreate(j) /\ NeverRegistered(history[j].name, j))
            => /\ history[j].result = KeyError
               /\ history[j].inv = InvBefore(j)

\* C3 witness: a failing call that triggered discovery, then a failing call
\* after discovery.
C3_Witness ==
    /\ Len(history) >= 2
    /\ IsCreate(1) /\ history[1].name = "not_a_model"
    /\ history[1].runs = 1 /\ history[1].result = KeyError
    /\ IsCreate(2) /\ history[2].name = "custom"
    /\ history[2].result = KeyError

\* C4: two create_model(n) calls with no register_model(n, _) in between
\* call the registered constructor twice and return two distinct instances.
C4_NewInstancePerCall ==
    \A i, j \in DOMAIN history :
        ( /\ i < j /\ IsCreate(i) /\ IsCreate(j)
          /\ history[i].name = history[j].name
          /\ history[i].result # KeyError
          /\ ~RegisteredBetween(history[i].name, i, j) )
        => LET c == history[i].result.constructor
           IN  /\ history[j].result # KeyError
               /\ history[j].result.constructor = c
               /\ history[j].result # history[i].result
               /\ history[i].inv[c] = InvBefore(i)[c] + 1
               /\ history[j].inv[c] = InvBefore(j)[c] + 1
               /\ history[j].inv[c] >= InvBefore(i)[c] + 2

\* C4 witness: create_model("baseline") succeeded twice.
C4_Witness ==
    \E i, j \in DOMAIN history :
        /\ i < j /\ IsCreate(i) /\ IsCreate(j)
        /\ history[i].name = "baseline" /\ history[j].name = "baseline"
        /\ history[i].result # KeyError /\ history[j].result # KeyError

\* C5: register_model(n, c) followed immediately by create_model(n) returns
\* a new instance made by c, calling c exactly once and no other
\* constructor; register_model itself calls no constructor.
C5_RegisterThenCreate ==
    \A j \in DOMAIN history :
        ( /\ j >= 2 /\ IsRegister(j - 1) /\ IsCreate(j)
          /\ history[j].name = history[j - 1].name )
        => LET c == history[j - 1].constructor
           IN  /\ history[j].result # KeyError
               /\ history[j].result.constructor = c
               /\ \A i \in 1..(j - 1) : history[i].result # history[j].result
               /\ history[j - 1].inv = InvBefore(j - 1)
               /\ history[j].inv = [InvBefore(j) EXCEPT ![c] = @ + 1]

\* C5 witness: the pair of calls happened on a populated registry, for a
\* name discovery had registered, and on the empty registry.
C5_Witness ==
    /\ Len(history) >= 4
    /\ IsRegister(1) /\ IsCreate(2) /\ history[2].name = history[1].name
    /\ IsRegister(3) /\ IsCreate(4) /\ history[4].name = history[3].name
    /\ history[3].name = "baseline"

\* C5 witness on a registry populated by discovery.
C5_WitnessDiscovered ==
    /\ Len(history) >= 3
    /\ IsCreate(1) /\ history[1].runs = 1
    /\ IsRegister(2) /\ history[2].name = "baseline"
    /\ IsCreate(3) /\ history[3].name = "baseline"

\* C6: after register_model(n, c1) then register_model(n, c2), a
\* create_model(n) call made before n is registered again calls c2 and not
\* c1, also for a name that discovery registers.
C6_LastRegistrationWins ==
    \A i, k, j \in DOMAIN history :
        ( /\ i < k /\ k < j
          /\ IsRegister(i) /\ IsRegister(k) /\ IsCreate(j)
          /\ history[i].name = history[j].name
          /\ history[k].name = history[j].name
          /\ ~RegisteredBetween(history[j].name, k, j) )
        => LET c1 == history[i].constructor
               c2 == history[k].constructor
           IN  /\ history[j].result # KeyError
               /\ history[j].result.constructor = c2
               /\ history[j].inv[c2] = InvBefore(j)[c2] + 1
               /\ c1 # c2 => history[j].inv[c1] = InvBefore(j)[c1]

\* C6 witness: after discovery, "baseline" was registered with c1, then with
\* c2, and then created.
C6_Witness ==
    /\ Len(history) >= 4
    /\ IsCreate(1) /\ history[1].runs = 1
    /\ IsRegister(2) /\ history[2].name = "baseline" /\ history[2].constructor = "c1"
    /\ IsRegister(3) /\ history[3].name = "baseline" /\ history[3].constructor = "c2"
    /\ IsCreate(4) /\ history[4].name = "baseline"

\* C7: when the first call is create_model("baseline"), it runs discovery,
\* which leaves at least 18 names in the registry, and returns an instance of
\* the baseline model; a later create_model("not_a_model") fails with a
\* KeyError.
C7_EndToEnd ==
    ( /\ Len(history) >= 1 /\ IsCreate(1) /\ history[1].name = "baseline" )
    => /\ history[1].runs = 1
       /\ Cardinality(history[1].names) >= 18
       /\ history[1].result # KeyError
       /\ history[1].result.constructor = ModuleConstructor("baseline_model")
       /\ \A j \in DOMAIN history :
            (j > 1 /\ IsCreate(j) /\ history[j].name = "not_a_model"
                   /\ ~RegisteredBefore("not_a_model", j))
                => history[j].result = KeyError

\* C7 witness: create_model("baseline") then create_model("not_a_model").
C7_Witness ==
    /\ Len(history) >= 2
    /\ IsCreate(1) /\ history[1].name = "baseline"
    /\ IsCreate(2) /\ history[2].name = "not_a_model"

\* C8: register_model(n, c) does not fail, sets the entry of n and leaves
\* every other entry as it was; create_model on a non-empty registry leaves
\* the mapping unchanged; no call removes a name.
C8_AdditiveLocalMutation ==
    [][ Len(history') = Len(history) + 1 =>
        LET e == history'[Len(history')]
        IN  /\ DOMAIN _required_models \subseteq DOMAIN _required_models'
            /\ e.op = "register" =>
                /\ e.result = NoResult
                /\ e.name \in DOMAIN _required_models'
                /\ _required_models'[e.name] = e.constructor
                /\ \A m \in DOMAIN _required_models' \ {e.name} :
                      /\ m \in DOMAIN _required_models
                      /\ _required_models'[m] = _required_models[m]
                /\ \A m \in DOMAIN _required_models \ {e.name} :
                      m \in DOMAIN _required_models'
            /\ (e.op = "create" /\ _required_models # EmptyRegistry) =>
                _required_models' = _required_models ]_vars

\* C8 witness: register_model on a populated registry, then a failing
\* create_model, with every name still present.
C8_Witness ==
    /\ Len(history) >= 3
    /\ IsCreate(1) /\ history[1].runs = 1
    /\ IsRegister(2) /\ history[2].name = "custom"
    /\ IsCreate(3) /\ history[3].result = KeyError
    /\ DOMAIN _required_models = KnownNames \cup {"custom"}

(***************************************************************************)
(* add_activity.py                                                         *)
(***************************************************************************)

\* Sequences over S of length at most n.
SeqsUpTo(S, n) == UNION { [1..k -> S] : k \in 0..n }

\* The parsed lines of the score file: json.loads(line) has name and score.
ScoreLines == { [name |-> "m1", score |-> 1], [name |-> "m2", score |-> 2] }

\* The parsed lines of the activity file: json.loads(line)["activity"].
ActivityLines == { [activity |-> a] : a \in SeqsUpTo({0, 1}, MaxActivities) }

\* A Python value that is a list or None (what a function returns when it
\* ends without a return statement).
None == [none |-> TRUE, list |-> << >>]

List(a) == [none |-> FALSE, list |-> a]

\* The items written to the output stream.
Newline == [kind |-> "newline", name |-> "", score |-> 0, activity |-> 0]

JsonDump(output) ==
    [kind |-> "record", name |-> output.name, score |-> output.score,
     activity |-> output.activity]

\* read_activity: the "activity" value of the first line; the function
\* returns in the first iteration, and falls off its end on an empty file.
read_activity(input_activity) ==
    IF Len(input_activity) = 0 THEN None ELSE List(input_activity[1].activity)

\* A mutation of the separator: a newline is written before every record.
SeparatorAlways(num) == << Newline >>

\* write_to_json: if num != 0: output_stream.write("\n")
Separator(num) == IF num # 0 THEN << Newline >> ELSE << >>

\* A mutation of the index: the list is read as if it were 1-based.
ActivityAtNext(activity, num) ==
    IF num + 2 \in DOMAIN activity.list THEN activity.list[num + 2]
    ELSE activity.list[1]

\* write_to_json: activity[num], num counted from 0.
ActivityAt(activity, num) == activity.list[num + 1]

\* activity[num] raises: a TypeError on None, an IndexError past the end.
SubscriptError(activity, num) ==
    IF activity.none THEN "TypeError"
    ELSE IF num + 1 > Len(activity.list) THEN "IndexError"
    ELSE "none"

InitActivity ==
    \E score \in SeqsUpTo(ScoreLines, MaxScoreLines),
       activityFile \in SeqsUpTo(ActivityLines, MaxActivityLines) :
        act = [pc |-> "read_activity", score |-> score,
               activityFile |-> activityFile, activity |-> None,
               num |-> 0, output |-> << >>, error |-> "none"]

\* _main: activity = read_activity(configuration["activity"])
ReadActivity ==
    /\ act.pc = "read_activity"
    /\ act' = [act EXCEPT !.pc = "write_to_json",
                          !.activity = read_activity(act.activityFile)]

\* write_to_json: one iteration of the loop over the lines of the score file.
WriteRecord ==
    /\ act.pc = "write_to_json"
    /\ act.num < Len(act.score)
    /\ SubscriptError(act.activity, act.num) = "none"
    /\ LET score == act.score[act.num + 1]
           output == [name |-> score.name, score |-> score.score,
                      activity |-> ActivityAt(act.activity, act.num)]
       IN  act' = [act EXCEPT
                    !.output = @ \o Separator(act.num) \o << JsonDump(output) >>,
                    !.num = @ + 1]

\* write_to_json: activity[num] raises, the streams are closed and the error
\* leaves the script.
WriteRaises ==
    /\ act.pc = "write_to_json"
    /\ act.num < Len(act.score)
    /\ SubscriptError(act.activity, act.num) # "none"
    /\ act' = [act EXCEPT !.pc = "failed",
                          !.error = SubscriptError(act.activity, act.num)]

\* write_to_json: the score file is exhausted.
WriteDone ==
    /\ act.pc = "write_to_json"
    /\ act.num = Len(act.score)
    /\ act' = [act EXCEPT !.pc = "done"]

(***************************************************************************)
(* Properties of add_activity.py                                           *)
(***************************************************************************)
ActFinished == act # << >> /\ act.pc \in {"done", "failed"}

\* The activity list write_to_json was given has this many entries.
ActivityCount == IF act.activity.none THEN 0 ELSE Len(act.activity.list)

Min(a, b) == IF a < b THEN a ELSE b

\* Record k (counted from 0): score line k with entry k of the activity
\* list; -1 stands for an entry the list does not have.
ExpectedRecord(k) ==
    [kind |-> "record", name |-> act.score[k + 1].name,
     score |-> act.score[k + 1].score,
     activity |-> IF k + 1 \in DOMAIN act.activity.list
                  THEN act.activity.list[k + 1] ELSE -1]

\* The first n records, separated by single newlines, none after the last.
ExpectedOutput(n) ==
    [ p \in 1..(2 * n - 1) |->
        IF p % 2 = 1 THEN ExpectedRecord((p - 1) \div 2) ELSE Newline ]

\* C9 as stated: for a score file of N lines the output holds exactly N
\* records in score-file order, record k with the activity at position k,
\* separated by single newlines.
C9_LineZipAllRecords ==
    ActFinished => act.output = ExpectedOutput(Len(act.score))

\* C9 amended: the output holds the first min(N, M) records, M the number
\* of entries of the activity list of the first line of the activity file
\* (0 for an empty file); the script fails with an error exactly when M < N.
C9_LineZipUpToActivities ==
    ActFinished =>
        /\ act.output = ExpectedOutput(Min(Len(act.score), ActivityCount))
        /\ act.pc = "done" <=> Len(act.score) <= ActivityCount
        /\ act.pc = "failed" =>
              act.error = (IF act.activity.none THEN "TypeError" ELSE "IndexError")
        /\ act.activity.none <=> Len(act.activityFile) = 0
        /\ ~act.activity.none => act.activity.list = act.activityFile[1].activity

\* C9 witness: two records were written from a two-line score file, with an
\* activity file of two lines.
C9_Witness ==
    /\ ActFinished
    /\ act.pc = "done"
    /\ Len(act.score) = 2
    /\ Len(act.activityFile) = 2
    /\ act.score[1] # act.score[2]
    /\ act.activity.list = << 1, 0 >>
    /\ act.activityFile[2].activity # act.activityFile[1].activity
    /\ Len(act.output) = 3

\* The script stopped after one of two records.
C9_WitnessShort ==
    /\ ActFinished
    /\ act.pc = "failed"
    /\ Len(act.score) = 2
    /\ Len(act.output) = 1

(***************************************************************************)
(* compute_descriptors.py                                                  *)
(***************************************************************************)

\* The first names of _NAMES; the list in the source goes on.
_NAMES == << "MolWt", "HeavyAtomMolWt", "ExactMolWt" >>

\* The values of features_to_use the callers pass; [] selects every name.
FeatureChoices == { << >>, << "MolWt" >>, << "ExactMolWt", "MolWt" >> }

\* SMILES the toolkit parses, and SMILES for which MolFromSmiles gives None.
ValidSmiles == "CCO"
InvalidSmiles == "C1CC"
Smiles == { ValidSmiles, InvalidSmiles }

Fragments == { [smiles |-> ValidSmiles, index |-> 0],
               [smiles |-> InvalidSmiles, index |-> 1] }

\* The parsed lines of an input file, as read with or without --fragments.
MoleculeLines(use_fragments) ==
    IF use_fragments
    THEN { [smiles |-> ValidSmiles, fragments |-> f] :
              f \in SeqsUpTo(Fragments, MaxFragments) }
    ELSE { [smiles |-> m, fragments |-> << >>] : m \in Smiles }

\* sep.join(items), as the sequence of the strings written.
RECURSIVE Join(_, _)
Join(items, sep) ==
    IF Len(items) = 0 THEN << >>
    ELSE IF Len(items) = 1 THEN << items[1] >>
    ELSE << items[1], sep >> \o Join(Tail(items), sep)

\* compute_descriptors: the features used, [] or None meaning all of them.
UsedFeatures(features_to_use) ==
    IF features_to_use = << >> THEN _NAMES ELSE features_to_use

\* _write_header
_write_header(use_fragments, used_features_names) ==
    << "smiles", "," >>
    \o (IF use_fragments THEN << "index", "," >> ELSE << >>)
    \o Join(used_features_names, ",")
    \o << "\n" >>

\* compute_descriptors: what is written for a SMILES before the molecule is
\* constructed: the quoted SMILES and, with fragments, the index.
RowPrefix(smiles, use_fragments, index) ==
    << "\"" \o smiles \o "\"", "," >>
    \o (IF use_fragments THEN << "index:" \o ToString(index), "," >> ELSE << >>)

\* compute_descriptors: the values of the used features and the newline.
RowValues(smiles, used_features_names) ==
    Join([i \in DOMAIN used_features_names |->
             used_features_names[i] \o "(" \o smiles \o ")"], ",")
    \o << "\n" >>

\* compute_descriptors: smiles_list and index_list of a parsed line.
SmilesList(molecule, use_fragments) ==
    IF use_fragments
    THEN [i \in DOMAIN molecule.fragments |-> molecule.fragments[i].smiles]
    ELSE << molecule.smiles >>

IndexList(molecule, use_fragments) ==
    IF use_fragments
    THEN [i \in DOMAIN molecule.fragments |-> molecule.fragments[i].index]
    ELSE << >>

\* rdkit.Chem.MolFromSmiles(smiles, sanitize=False) is None
MolIsNone(smiles) == smiles = InvalidSmiles

\* An output file that has not been opened.
NotWritten == << "not written" >>

InitDescriptors ==
    \E use_fragments \in BOOLEAN, features_to_use \in FeatureChoices :
    \E n \in 1..MaxFiles :
    \E input_files \in [1..n -> SeqsUpTo(MoleculeLines(use_fragments), MaxMolecules)] :
        desc = [pc |-> "next_file",
                input_files |-> input_files,
                use_fragments |-> use_fragments,
                used_features_names |-> UsedFeatures(features_to_use),
                output |-> [k \in 1..n |-> NotWritten],
                num |-> -1,
                line |-> 0,
                smiles_list |-> << >>,
                index_list |-> << >>,
                position |-> 0,
                number_of_invalid |-> 0,
                count_molecules |-> 0]

\* for input_file in input_files: num += 1, the output file is opened for
\* writing and its header is written.
OpenFiles ==
    /\ desc.pc = "next_file"
    /\ desc.num + 1 < Len(desc.input_files)
    /\ desc' = [desc EXCEPT
            !.pc = "next_line",
            !.num = @ + 1,
            !.line = 0,
            !.output[desc.num + 2] =
                _write_header(desc.use_fragments, desc.used_features_names)]

\* The input files are exhausted: the summary is logged.
LogSummary ==
    /\ desc.pc = "next_file"
    /\ desc.num + 1 = Len(desc.input_files)
    /\ desc' = [desc EXCEPT !.pc = "done"]

\* for line in streami: the line is parsed and its SMILES are gathered.
ReadLine ==
    /\ desc.pc = "next_line"
    /\ desc.line < Len(desc.input_files[desc.num + 1])
    /\ LET molecule == desc.input_files[desc.num + 1][desc.line + 1]
       IN  desc' = [desc EXCEPT
                !.pc = "next_smiles",
                !.line = @ + 1,
                !.smiles_list = SmilesList(molecule, desc.use_fragments),
                !.index_list = IndexList(molecule, desc.use_fragments),
                !.position = 0]

\* The input file is exhausted: both files are closed.
CloseFiles ==
    /\ desc.pc = "next_line"
    /\ desc.line = Len(desc.input_files[desc.num + 1])
    /\ desc' = [desc EXCEPT !.pc = "next_file"]

\* The state after the part of the loop body that precedes the construction
\* of the molecule, for the SMILES at desc.position.
AfterPrefix ==
    LET smiles == desc.smiles_list[desc.position + 1]
        index == IF desc.use_fragments
                 THEN desc.index_list[desc.position + 1] ELSE 0
    IN  [desc EXCEPT
            !.output[desc.num + 1] =
                @ \o RowPrefix(smiles, desc.use_fragments, index),
            !.position = @ + 1,
            !.count_molecules = @ + 1]

\* for smiles in smiles_list, a molecule the toolkit accepts: the prefix and
\* the values are written.
WriteRow ==
    /\ desc.pc = "next_smiles"
    /\ desc.position < Len(desc.smiles_list)
    /\ ~MolIsNone(desc.smiles_list[desc.position + 1])
    /\ desc' = [AfterPrefix EXCEPT
            !.output[desc.num + 1] =
                @ \o RowValues(desc.smiles_list[desc.position + 1],
                               desc.used_features_names)]

\* for smiles in smiles_list, MolFromSmiles gives None and SanitizeMol lets
\* it pass: the molecule is counted as invalid and the loop continues.
SkipInvalid ==
    /\ desc.pc = "next_smiles"
    /\ desc.position < Len(desc.smiles_list)
    /\ MolIsNone(desc.smiles_list[desc.position + 1])
    /\ desc' = [AfterPrefix EXCEPT !.number_of_invalid = @ + 1]

\* for smiles in smiles_list, MolFromSmiles gives None and SanitizeMol
\* raises on it: the files are closed and the error leaves the function.
SanitizeRaises ==
    /\ desc.pc = "next_smiles"
    /\ desc.position < Len(desc.smiles_list)
    /\ MolIsNone(desc.smiles_list[desc.position + 1])
    /\ desc' = [AfterPrefix EXCEPT !.pc = "raised"]

\* The SMILES of the line are exhausted.
EndOfLine ==
    /\ desc.pc = "next_smiles"
    /\ desc.position = Len(desc.smiles_list)
    /\ desc' = [desc EXCEPT !.pc = "next_line"]

(***************************************************************************)
(* Properties of compute_descriptors.py                                    *)
(***************************************************************************)
DescFinished == desc # << >> /\ desc.pc \in {"done", "raised"}

\* The positions of the newlines of a stream.
Newlines(stream) == { p \in DOMAIN stream : stream[p] = "\n" }

\* The number of commas of the line that ends at the newline at p.
CommasOfLine(stream, p) ==
    LET before == { q \in Newlines(stream) : q < p }
        start == IF before = {} THEN 1
                 ELSE (CHOOSE q \in before : \A r \in before : r <= q) + 1
    IN  Cardinality({ q \in start..(p - 1) : stream[q] = "," })

\* A header line followed only by complete rows: the stream ends with a
\* newline and every line has as many fields as the header.
WellFormedCsv(stream, use_fragments, used_features_names) ==
    /\ stream # NotWritten
    /\ Len(stream) > 0
    /\ stream[Len(stream)] = "\n"
    /\ SubSeq(stream, 1, Len(_write_header(use_fragments, used_features_names)))
          = _write_header(use_fragments, used_features_names)
    /\ \A p \in Newlines(stream) :
          CommasOfLine(stream, p) =
              Len(used_features_names) + (IF use_fragments THEN 1 ELSE 0)

\* The number of SMILES of input file k.
RECURSIVE SmilesCount(_, _)
SmilesCount(file, use_fragments) ==
    IF Len(file) = 0 THEN 0
    ELSE Len(SmilesList(file[1], use_fragments))
         + SmilesCount(Tail(file), use_fragments)

RECURSIVE InvalidCount(_, _)
InvalidCount(file, use_fragments) ==
    IF Len(file) = 0 THEN 0
    ELSE LET l == SmilesList(file[1], use_fragments)
         IN  Cardinality({ i \in DOMAIN l : MolIsNone(l[i]) })
             + InvalidCount(Tail(file), use_fragments)

\* C10: after compute_descriptors has processed its inputs, input file k
\* has been written to output file k, every output file is a header line
\* followed only by complete rows, one per valid molecule of the input file
\* (an invalid molecule contributes no partial row), and the invalid count
\* does not exceed the processed count.
C10_CompleteRowsOnly ==
    DescFinished =>
        /\ desc.number_of_invalid <= desc.count_molecules
        /\ \A k \in DOMAIN desc.input_files :
            /\ WellFormedCsv(desc.output[k], desc.use_fragments,
                             desc.used_features_names)
            /\ Cardinality(Newlines(desc.output[k])) =
                  1 + SmilesCount(desc.input_files[k], desc.use_fragments)
                    - InvalidCount(desc.input_files[k], desc.use_fragments)

\* With inputs of valid molecules only, the files are well formed.
Desc_ValidInputsWellFormed ==
    ( /\ DescFinished
      /\ \A k \in DOMAIN desc.input_files :
            InvalidCount(desc.input_files[k], desc.use_fragments) = 0 )
    => /\ desc.pc = "done"
       /\ \A k \in DOMAIN desc.input_files :
            /\ WellFormedCsv(desc.output[k], desc.use_fragments,
                             desc.used_features_names)
            /\ Cardinality(Newlines(desc.output[k])) =
                  1 + SmilesCount(desc.input_files[k], desc.use_fragments)

InitOthers ==
    /\ act = << >>
    /\ desc = << >>

Init == InitRegistry /\ InitOthers

Next ==
    \/ RegisterModel /\ UNCHANGED <<act, desc>>
    \/ CreateModel /\ UNCHANGED <<act, desc>>

Spec == Init /\ [][Next]_vars

InitAct == InitRegistry /\ InitActivity /\ desc = << >>

NextAct ==
    \/ ReadActivity /\ UNCHANGED <<regVars, desc>>
    \/ WriteRecord /\ UNCHANGED <<regVars, desc>>
    \/ WriteRaises /\ UNCHANGED <<regVars, desc>>
    \/ WriteDone /\ UNCHANGED <<regVars, desc>>

SpecAct == InitAct /\ [][NextAct]_vars

InitDesc == InitRegistry /\ act = << >> /\ InitDescriptors

NextDesc ==
    \/ OpenFiles /\ UNCHANGED <<regVars, act>>
    \/ LogSummary /\ UNCHANGED <<regVars, act>>
    \/ ReadLine /\ UNCHANGED <<regVars, act>>
    \/ CloseFiles /\ UNCHANGED <<regVars, act>>
    \/ WriteRow /\ UNCHANGED <<regVars, act>>
    \/ SkipInvalid /\ UNCHANGED <<regVars, act>>
    \/ SanitizeRaises /\ UNCHANGED <<regVars, act>>
    \/ EndOfLine /\ UNCHANGED <<regVars, act>>

SpecDesc == InitDesc /\ [][NextDesc]_vars

====
